---- MODULE Spec2Model ----
(***************************************************************************)
(* Product management API: the in-memory store (models/product.py), the    *)
(* repository facade (repositories/product_repository.py) and the six      *)
(* request handlers (routers/products.py), run by concurrent worker        *)
(* threads.  A handler is a sequence of store calls; every store call      *)
(* takes the store's RLock, runs its body and releases the lock.  Threads  *)
(* interleave between store calls and between taking the lock and running  *)
(* the body.                                                               *)
(*                                                                         *)
(* Prices are floats in the source; here they are naturals, which floats   *)
(* represent exactly, so float(price) * int(quantity) is the integer       *)
(* product.  A name is a sequence of characters.                           *)
(***************************************************************************)
EXTENDS Naturals, Sequences, FiniteSets

\* ------------------------------------------------------------------ bounds
NumThreads == 2
MaxId == 2

Threads == 1..NumThreads
Ids == 1..MaxId
NoThread == 0

Whitespace == { " " }

\* ------------------------------------------------------------ schemas
\* ProductBase: name, price >= 0, quantity >= 0 (the schema has already
\* rejected anything else before a handler runs).
\* The bodies a client submits here: a whitespace-only name, a plain name and
\* a padded name, the valid two differing in every field.
ProductBase ==
    { [name |-> <<" ">>, price |-> 0, quantity |-> 0],
      [name |-> <<"k">>, price |-> 10, quantity |-> 2],
      [name |-> <<" ", "k", " ">>, price |-> 5, quantity |-> 3] }

NoBody == [name |-> <<>>, price |-> 0, quantity |-> 0]

\* Product / ProductCreate: ProductBase plus id.
Product(id, body) ==
    [id |-> id, name |-> body.name, price |-> body.price, quantity |-> body.quantity]

\* str.strip(): drop leading and trailing whitespace.
RECURSIVE lstrip(_)
lstrip(s) ==
    IF s = <<>> THEN s
    ELSE IF Head(s) \in Whitespace THEN lstrip(Tail(s)) ELSE s

RECURSIVE rstrip(_)
rstrip(s) ==
    IF s = <<>> THEN s
    ELSE IF s[Len(s)] \in Whitespace THEN rstrip(SubSeq(s, 1, Len(s) - 1)) ELSE s

strip(s) == rstrip(lstrip(s))

\* ------------------------------------------------------- the dict _items
\* A Python dict keeps insertion order: a sequence of (key, val) entries with
\* pairwise distinct keys.
Keys(d) == { d[i].key : i \in DOMAIN d }

IndexOf(d, k) == CHOOSE i \in DOMAIN d : d[i].key = k

\* d.get(k): the value, or None.  An Optional is a sequence of length <= 1.
DictGet(d, k) == IF k \in Keys(d) THEN << d[IndexOf(d, k)].val >> ELSE <<>>

\* Variant: an assignment to a key moves its entry to the end.
DictSet_to_end(d, k, v) ==
    Append(SelectSeq(d, LAMBDA e : e.key # k), [key |-> k, val |-> v])

\* d[k] = v: replaces in place when k is a key, appends otherwise.
DictSet(d, k, v) ==
    IF k \in Keys(d)
    THEN [d EXCEPT ![IndexOf(d, k)] = [key |-> k, val |-> v]]
    ELSE Append(d, [key |-> k, val |-> v])

\* del d[k]
DictDel(d, k) == SelectSeq(d, LAMBDA e : e.key # k)

\* list(d.values())
DictValues(d) == [i \in DOMAIN d |-> d[i].val]

\* ------------------------------------------------------------ InMemoryDB
db_list_all(d) == DictValues(d)

db_get(d, product_id) == DictGet(d, product_id)

\* Variant: the store is rebuilt around the new record.
db_create_clobber(d, product) == << [key |-> product.id, val |-> product] >>

db_create(d, product) == DictSet(d, product.id, product)

\* Variant: an update that merges, keeping the stored price.
db_update_merge(d, product_id, product) ==
    IF product_id \in Keys(d)
    THEN DictSet(d, product_id,
                 [product EXCEPT !.price = d[IndexOf(d, product_id)].val.price])
    ELSE DictSet(d, product_id, product)

db_update(d, product_id, product) == DictSet(d, product_id, product)

\* Variant: a delete that empties the store.
db_delete_clear(d, product_id) == <<>>

db_delete(d, product_id) ==
    IF product_id \in Keys(d) THEN DictDel(d, product_id) ELSE d

\* ----------------------------------------------------- ProductRepository
\* Variants: an existence test that always fails, or always succeeds.
repo_exists_never(d, product_id) == FALSE
repo_exists_always(d, product_id) == TRUE

repo_exists(d, product_id) == db_get(d, product_id) # <<>>

\* -------------------------------------------------------------- responses
Resp(status, detail, body, total) ==
    [status |-> status, detail |-> detail, body |-> body, total |-> total]

NoResp == Resp(0, "", <<>>, 0)
HTTPException(status, detail) == Resp(status, detail, <<>>, 0)

NameEmpty == HTTPException(400, "name must be non-empty")
NotUnique == HTTPException(400, "id must be unique")
NotFound == HTTPException(404, "Product not found")

\* ------------------------------------------------------------ requests
Ops == {"list", "balance", "get", "create", "update", "delete"}

Req(op, id, body) == [op |-> op, id |-> id, body |-> body]
NoReq == Req("none", 0, NoBody)

Requests ==
    { Req(op, 0, NoBody) : op \in {"list", "balance"} }
    \cup { Req(op, i, NoBody) : op \in {"get", "delete"}, i \in Ids }
    \cup { Req(op, i, b) : op \in {"create", "update"}, i \in Ids, b \in ProductBase }

\* Variant: create and update go to the existence test first.
Entry_exists_first(op) ==
    CASE op \in {"list", "balance"} -> "list_wait"
      [] op = "get" -> "get_wait"
      [] op \in {"create", "update", "delete"} -> "exists_wait"

\* Where each handler begins.
Entry(op) ==
    CASE op \in {"list", "balance"} -> "list_wait"
      [] op = "get" -> "get_wait"
      [] op \in {"create", "update"} -> "validate"
      [] op = "delete" -> "exists_wait"

VARIABLES
    items,   \* InMemoryDB._items
    lock,    \* InMemoryDB._lock: [owner, count]
    pc,      \* per thread: position in its handler
    req,     \* per thread: the request being handled
    resp,    \* per thread: the response of its last finished request
    firstCreated  \* history: the ids ever created, in order of first creation

vars == << items, lock, pc, req, resp, firstCreated >>

Init ==
    /\ items = <<>>
    /\ lock = [owner |-> NoThread, count |-> 0]
    /\ pc = [t \in Threads |-> "idle"]
    /\ req = [t \in Threads |-> NoReq]
    /\ resp = [t \in Threads |-> NoResp]
    /\ firstCreated = <<>>

\* ------------------------------------------------------------------ RLock
\* Variant: a lock that admits everyone.
CanAcquire_any(t) == TRUE

CanAcquire(t) == lock.owner \in {NoThread, t}

Acquired(t) == [owner |-> t, count |-> lock.count + 1]

\* Variant: leaving the `with` block does not release the lock.
Released_held == lock

Released ==
    IF lock.count = 1
    THEN [owner |-> NoThread, count |-> 0]
    ELSE [lock EXCEPT !.count = lock.count - 1]

WaitPcs == {"list_wait", "get_wait", "exists_wait", "write_wait"}

InPc(w) ==
    CASE w = "list_wait" -> "list_in"
      [] w = "get_wait" -> "get_in"
      [] w = "exists_wait" -> "exists_in"
      [] w = "write_wait" -> "write_in"

InPcs == {"list_in", "get_in", "exists_in", "write_in"}

\* `with self._lock:` entered.
Acquire(t) ==
    /\ pc[t] \in WaitPcs
    /\ CanAcquire(t)
    /\ lock' = Acquired(t)
    /\ pc' = [pc EXCEPT ![t] = InPc(pc[t])]
    /\ UNCHANGED << items, req, resp, firstCreated >>

\* The thread finishes its request with response r.
Finish(t, r) ==
    /\ pc' = [pc EXCEPT ![t] = "done"]
    /\ resp' = [resp EXCEPT ![t] = r]

Goto(t, p) ==
    /\ pc' = [pc EXCEPT ![t] = p]
    /\ UNCHANGED resp

\* ------------------------------------------------------------- handlers
\* A request arrives and a worker thread is handed its handler.
Request(t) ==
    /\ pc[t] \in {"idle", "done"}
    /\ \E r \in Requests :
        /\ req' = [req EXCEPT ![t] = r]
        /\ pc' = [pc EXCEPT ![t] = Entry(r.op)]
    /\ resp' = [resp EXCEPT ![t] = NoResp]
    /\ UNCHANGED << items, lock, firstCreated >>

\* Variant: no name counts as blank.
NameBlank_never(body) == FALSE

NameBlank(body) == strip(body.name) = <<>>

\* create_product / update_product: `if not payload.name.strip()`
validate_name(t) ==
    /\ pc[t] = "validate"
    /\ IF NameBlank(req[t].body)
       THEN Finish(t, NameEmpty)
       ELSE Goto(t, "exists_wait")
    /\ UNCHANGED << items, lock, req, firstCreated >>

\* list_products
ListResponse(d) == Resp(200, "", db_list_all(d), 0)

list_products(t) ==
    /\ pc[t] = "list_in"
    /\ req[t].op = "list"
    /\ lock' = Released
    /\ Finish(t, ListResponse(items))
    /\ UNCHANGED << items, req, firstCreated >>

\* get_total_balance: total = 0.0; for p in products: total += price * qty
\* Variant: the loop stops after the first record.
SumLoop_first(products, total) ==
    IF products = <<>> THEN total
    ELSE total + Head(products).price * Head(products).quantity

RECURSIVE SumLoop(_, _)
SumLoop(products, total) ==
    IF products = <<>> THEN total
    ELSE SumLoop(Tail(products),
                 total + Head(products).price * Head(products).quantity)

BalanceResponse(d) == Resp(200, "", <<>>, SumLoop(db_list_all(d), 0))

get_total_balance(t) ==
    /\ pc[t] = "list_in"
    /\ req[t].op = "balance"
    /\ lock' = Released
    /\ Finish(t, BalanceResponse(items))
    /\ UNCHANGED << items, req, firstCreated >>

\* get_product
GetResponse(d, product_id) ==
    IF db_get(d, product_id) = <<>>
    THEN NotFound
    ELSE Resp(200, "", db_get(d, product_id), 0)

\* Variant: the lookup takes the record out of the store.
get_product_pop(t) ==
    /\ pc[t] = "get_in"
    /\ lock' = Released
    /\ Finish(t, GetResponse(items, req[t].id))
    /\ items' = db_delete(items, req[t].id)
    /\ UNCHANGED << req, firstCreated >>

get_product(t) ==
    /\ pc[t] = "get_in"
    /\ lock' = Released
    /\ Finish(t, GetResponse(items, req[t].id))
    /\ UNCHANGED << items, req, firstCreated >>

\* Variant: the record is written before the duplicate is reported.
create_product_exists_overwrite(t) ==
    /\ pc[t] = "exists_in"
    /\ req[t].op = "create"
    /\ lock' = Released
    /\ IF repo_exists(items, req[t].id)
       THEN /\ Finish(t, NotUnique)
            /\ items' = db_create(items, Product(req[t].id, req[t].body))
       ELSE /\ Goto(t, "write_wait")
            /\ UNCHANGED items
    /\ UNCHANGED << req, firstCreated >>

\* create_product: `if product_repository.exists(payload.id)`
create_product_exists(t) ==
    /\ pc[t] = "exists_in"
    /\ req[t].op = "create"
    /\ lock' = Released
    /\ IF repo_exists(items, req[t].id)
       THEN Finish(t, NotUnique)
       ELSE Goto(t, "write_wait")
    /\ UNCHANGED << items, req, firstCreated >>

\* Variant: the name is stored trimmed.
create_dict_trim(r) == Product(r.id, [r.body EXCEPT !.name = strip(@)])

\* The history of first creations, after a create of id has been stored.
NoteCreated(fc, id) ==
    IF \E n \in DOMAIN fc : fc[n] = id THEN fc ELSE Append(fc, id)

\* payload.model_dump()
create_dict(r) == Product(r.id, r.body)

create_product_store(t) ==
    /\ pc[t] = "write_in"
    /\ req[t].op = "create"
    /\ items' = db_create(items, create_dict(req[t]))
    /\ lock' = Released
    /\ Finish(t, Resp(201, "", << create_dict(req[t]) >>, 0))
    /\ firstCreated' = NoteCreated(firstCreated, req[t].id)
    /\ UNCHANGED req

\* update_product: `if not product_repository.exists(product_id)`
update_product_exists(t) ==
    /\ pc[t] = "exists_in"
    /\ req[t].op = "update"
    /\ lock' = Released
    /\ IF repo_exists(items, req[t].id)
       THEN Goto(t, "write_wait")
       ELSE Finish(t, NotFound)
    /\ UNCHANGED << items, req, firstCreated >>

\* Variant: the path id is not put into the record.
update_dict_noid(r) == Product(0, r.body)

\* {"id": product_id, **payload.model_dump()}
update_dict(r) == Product(r.id, r.body)

update_product_store(t) ==
    /\ pc[t] = "write_in"
    /\ req[t].op = "update"
    /\ items' = db_update(items, req[t].id, update_dict(req[t]))
    /\ lock' = Released
    /\ Finish(t, Resp(200, "", << update_dict(req[t]) >>, 0))
    /\ UNCHANGED << req, firstCreated >>

\* delete_product: `if not product_repository.exists(product_id)`
delete_product_exists(t) ==
    /\ pc[t] = "exists_in"
    /\ req[t].op = "delete"
    /\ lock' = Released
    /\ IF repo_exists(items, req[t].id)
       THEN Goto(t, "write_wait")
       ELSE Finish(t, NotFound)
    /\ UNCHANGED << items, req, firstCreated >>

delete_product_store(t) ==
    /\ pc[t] = "write_in"
    /\ req[t].op = "delete"
    /\ items' = db_delete(items, req[t].id)
    /\ lock' = Released
    /\ Finish(t, Resp(204, "", <<>>, 0))
    /\ UNCHANGED << req, firstCreated >>

Step(t) ==
    \/ Acquire(t)
    \/ validate_name(t)
    \/ list_products(t)
    \/ get_total_balance(t)
    \/ get_product(t)
    \/ create_product_exists(t)
    \/ create_product_store(t)
    \/ update_product_exists(t)
    \/ update_product_store(t)
    \/ delete_product_exists(t)
    \/ delete_product_store(t)

Next == \E t \in Threads : Request(t) \/ Step(t)

Spec == Init /\ [][Next]_vars

\* Every thread serves at most one request: a fixed batch of concurrent
\* requests against the store as constructed.
RequestOnce(t) ==
    /\ pc[t] = "idle"
    /\ Request(t)

NextOnce == \E t \in Threads : RequestOnce(t) \/ Step(t)

SpecOnce == Init /\ [][NextOnce]_vars

\* ------------------------------------------------------------ vocabulary
\* Thread t takes a step of its handler (not the arrival of a request).
Steps(t) == pc[t] \notin {"idle", "done"} /\ pc'[t] # pc[t]

\* Thread t's request ends in this step.
Ends(t) == Steps(t) /\ pc'[t] = "done"

\* Thread t runs the body of the existence test of handler op.
Tests(t, op) == pc[t] = "exists_in" /\ req[t].op = op /\ Steps(t)

\* Thread t runs the body of the store call that carries out handler op.
Writes(t, op) == pc[t] = "write_in" /\ req[t].op = op /\ Steps(t)

Present(d, i) == i \in Keys(d)

Mutating == {"create", "update", "delete"}
IsError(r) == r.status \in {400, 404}
IsSuccess(r) == r.status \in {200, 201, 204}

AllDone == \A t \in Threads : pc[t] = "done"

\* The record a create or update request asks to be stored.
Wanted(r) ==
    [id |-> r.id, name |-> r.body.name, price |-> r.body.price,
     quantity |-> r.body.quantity]

\* ---------------------------------------------------------------- C1
\* C1: whenever a create request's existence test finds its id in the store,
\* the request ends there with 400 "id must be unique" and the store, the
\* record under that id included, is exactly as it was.
C1_Uniqueness ==
    [][\A t \in Threads :
        (Tests(t, "create") /\ Present(items, req[t].id))
            => /\ Ends(t)
               /\ resp'[t] = HTTPException(400, "id must be unique")
               /\ items' = items]_vars

\* A create was rejected as a duplicate and the record it would have replaced
\* is still stored, different from the rejected payload.
C1_Witness ==
    \E t \in Threads :
        /\ pc[t] = "done"
        /\ req[t].op = "create"
        /\ resp[t] = HTTPException(400, "id must be unique")
        /\ Present(items, req[t].id)
        /\ DictGet(items, req[t].id) # << Wanted(req[t]) >>

\* ---------------------------------------------------------------- C2
\* One request run alone, start to end, on store d: its response and the
\* store it leaves.
Alone(d, r) ==
    CASE r.op = "list" -> [resp |-> Resp(200, "", DictValues(d), 0), items |-> d]
      [] r.op = "balance" ->
            [resp |-> Resp(200, "", <<>>, SumLoop(DictValues(d), 0)), items |-> d]
      [] r.op = "get" ->
            [resp |-> IF Present(d, r.id)
                      THEN Resp(200, "", DictGet(d, r.id), 0)
                      ELSE HTTPException(404, "Product not found"),
             items |-> d]
      [] r.op = "create" ->
            IF strip(r.body.name) = <<>>
            THEN [resp |-> HTTPException(400, "name must be non-empty"), items |-> d]
            ELSE IF Present(d, r.id)
            THEN [resp |-> HTTPException(400, "id must be unique"), items |-> d]
            ELSE [resp |-> Resp(201, "", << Wanted(r) >>, 0),
                  items |-> DictSet(d, r.id, Wanted(r))]
      [] r.op = "update" ->
            IF strip(r.body.name) = <<>>
            THEN [resp |-> HTTPException(400, "name must be non-empty"), items |-> d]
            ELSE IF ~Present(d, r.id)
            THEN [resp |-> HTTPException(404, "Product not found"), items |-> d]
            ELSE [resp |-> Resp(200, "", << Wanted(r) >>, 0),
                  items |-> DictSet(d, r.id, Wanted(r))]
      [] r.op = "delete" ->
            IF ~Present(d, r.id)
            THEN [resp |-> HTTPException(404, "Product not found"), items |-> d]
            ELSE [resp |-> Resp(204, "", <<>>, 0), items |-> DictDel(d, r.id)]

\* The orders in which the threads' requests can be run one at a time.
Orders == { o \in [1..NumThreads -> Threads] : \A a, b \in 1..NumThreads : o[a] = o[b] => a = b }

\* The store after the first n requests of order o, run one at a time from
\* the empty store.
RECURSIVE SerialItems(_, _)
SerialItems(o, n) ==
    IF n = 0 THEN <<>> ELSE Alone(SerialItems(o, n - 1), req[o[n]]).items

Serializable ==
    \E o \in Orders :
        /\ \A n \in 1..NumThreads : resp[o[n]] = Alone(SerialItems(o, n - 1), req[o[n]]).resp
        /\ items = SerialItems(o, NumThreads)

\* C2: once all of a batch of concurrent requests have been answered, the
\* responses and the store are those of running the same requests one at a
\* time in some order.
C2_AtomicHandlers == AllDone => Serializable

\* ---------------------------------------------------------------- C3
\* C3: the record of an id appears only in a create request's store step,
\* changes only in an update request's store step and disappears only in a
\* delete request's store step; and an update or delete whose store step runs
\* while its id is absent answers 404.
C3_StateMachine ==
    [][/\ \A i \in Ids :
            /\ (~Present(items, i) /\ Present(items', i))
                   => \E t \in Threads : Writes(t, "create") /\ req[t].id = i
            /\ (Present(items, i) /\ Present(items', i)
                     /\ DictGet(items', i) # DictGet(items, i))
                   => \E t \in Threads : Writes(t, "update") /\ req[t].id = i
            /\ (Present(items, i) /\ ~Present(items', i))
                   => \E t \in Threads : Writes(t, "delete") /\ req[t].id = i
       /\ \A t \in Threads :
            ((Writes(t, "update") \/ Writes(t, "delete")) /\ ~Present(items, req[t].id))
                => resp'[t] = HTTPException(404, "Product not found")]_vars

\* ---------------------------------------------------------------- C4
ValidCreate(r) == r.op = "create" /\ strip(r.body.name) # <<>>

DistinctCreates ==
    /\ \A t \in Threads : ValidCreate(req[t])
    /\ \A t, u \in Threads : req[t].id = req[u].id => t = u

\* C4: when the batch is one valid create per thread, all ids distinct, and
\* all have been answered, every one was answered 201 with its payload and
\* list_all returns exactly one record per request, equal to its payload.
C4_DistinctCreates ==
    (AllDone /\ DistinctCreates)
        => /\ \A t \in Threads : resp[t] = Resp(201, "", << Wanted(req[t]) >>, 0)
           /\ Len(db_list_all(items)) = NumThreads
           /\ \A t \in Threads :
                Cardinality({ n \in DOMAIN db_list_all(items) :
                                db_list_all(items)[n] = Wanted(req[t]) }) = 1

\* A batch of creates with distinct ids has been answered in full.
C4_Witness == AllDone /\ DistinctCreates /\ Len(items) = NumThreads

\* ---------------------------------------------------------------- C5
Inside == { t \in Threads : pc[t] \in InPcs }

\* C5: at most one thread is inside a store method's body, that thread holds
\* the lock, and the lock is free when nobody is inside.
C5_MutualExclusion ==
    /\ Cardinality(Inside) <= 1
    /\ \A t \in Inside : lock = [owner |-> t, count |-> 1]
    /\ Inside = {} => lock = [owner |-> NoThread, count |-> 0]

\* One thread is inside a store method while another waits to enter one.
C5_Witness ==
    \E t, u \in Threads : pc[t] \in InPcs /\ pc[u] \in WaitPcs

\* ---------------------------------------------------------------- C6
\* The sum of price * quantity over a set of records.
RECURSIVE SetSum(_)
SetSum(S) ==
    IF S = {} THEN 0
    ELSE LET x == CHOOSE y \in S : TRUE
         IN  x.price * x.quantity + SetSum(S \ {x})

Stored(d) == { d[n].val : n \in DOMAIN d }

\* C6: the balance request answers 200 with the sum of price * quantity over
\* the records that are in the store at the instant its list_all body runs,
\* and with 0 when the store is empty then.
C6_Balance ==
    [][\A t \in Threads :
        (pc[t] = "list_in" /\ req[t].op = "balance" /\ Steps(t))
            => /\ Ends(t)
               /\ resp'[t].status = 200
               /\ resp'[t].total = SetSum(Stored(items))
               /\ (items = <<>> => resp'[t].total = 0)]_vars

\* A balance over two records was answered, and the store has changed since.
C6_Witness ==
    \E t \in Threads :
        /\ pc[t] = "done"
        /\ req[t].op = "balance"
        /\ resp[t].total = 35
        /\ SetSum(Stored(items)) # 35

\* ---------------------------------------------------------------- C7
\* C7: right after a create request has stored its payload P and answered
\* 201, a get of P.id answers 200 with a record equal to P in every field,
\* the name as submitted.
C7_RoundTrip ==
    [][\A t \in Threads :
        Writes(t, "create")
            => /\ resp'[t].status = 201
               /\ GetResponse(items', req[t].id) = Resp(200, "", << Wanted(req[t]) >>, 0)]_vars

\* A get has returned the record another thread's create stored, and its name
\* has surrounding whitespace.
C7_Witness ==
    \E t, u \in Threads :
        /\ pc[t] = "done" /\ req[t].op = "create" /\ resp[t].status = 201
        /\ pc[u] = "done" /\ req[u].op = "get" /\ req[u].id = req[t].id
        /\ resp[u] = Resp(200, "", << Wanted(req[t]) >>, 0)
        /\ strip(req[t].body.name) # req[t].body.name

\* ---------------------------------------------------------------- C8
\* C8: right after an update request has stored its body and answered 200, a
\* get of that id answers 200 with exactly the id and the body's name, price
\* and quantity.
C8_UpdateReplaces ==
    [][\A t \in Threads :
        Writes(t, "update")
            => /\ resp'[t] = Resp(200, "", << Wanted(req[t]) >>, 0)
               /\ GetResponse(items', req[t].id) = Resp(200, "", << Wanted(req[t]) >>, 0)]_vars

\* An update has replaced a record that another thread created with a
\* different name, price and quantity.
C8_Witness ==
    \E t, u \in Threads :
        /\ pc[t] = "done" /\ req[t].op = "update" /\ resp[t].status = 200
        /\ pc[u] = "done" /\ req[u].op = "create" /\ resp[u].status = 201
        /\ req[u].id = req[t].id
        /\ req[u].body.name # req[t].body.name
        /\ req[u].body.price # req[t].body.price
        /\ req[u].body.quantity # req[t].body.quantity
        /\ DictGet(items, req[t].id) = << Wanted(req[t]) >>

\* ---------------------------------------------------------------- C9
\* C9: a delete request whose existence test finds the id absent ends with
\* 404 "Product not found" and the store unchanged (so a repeat finds the
\* same); one whose test finds the id goes on to its store step, which
\* answers 204 and leaves the id absent.
C9_DeleteAbsent ==
    [][\A t \in Threads :
        /\ (Tests(t, "delete") /\ ~Present(items, req[t].id))
              => /\ Ends(t)
                 /\ resp'[t] = HTTPException(404, "Product not found")
                 /\ items' = items
        /\ (Tests(t, "delete") /\ Present(items, req[t].id))
              => /\ ~Ends(t)
                 /\ items' = items
        /\ Writes(t, "delete")
              => /\ Ends(t)
                 /\ resp'[t].status = 204
                 /\ ~Present(items', req[t].id)]_vars

\* Two deletes of the same absent id were both answered 404.
C9_Witness ==
    \E t, u \in Threads :
        /\ t # u
        /\ pc[t] = "done" /\ req[t].op = "delete" /\ resp[t].status = 404
        /\ pc[u] = "done" /\ req[u] = req[t] /\ resp[u] = resp[t]
        /\ ~Present(items, req[t].id)

\* ---------------------------------------------------------------- C10
\* The whole effect of request r is in store d.
Applied(d, r) ==
    IF r.op = "delete" THEN ~Present(d, r.id) ELSE DictGet(d, r.id) = << Wanted(r) >>

\* C10: a create, update or delete request touches the store in one step
\* only, its last, which applies its whole effect and answers success; a
\* request that ends with 400 or 404 ends in a step that leaves the store
\* unchanged, and no step but a request's last successful one changes it.
C10_NoPartialSuccess ==
    [][/\ \A t \in Threads :
            (Steps(t) /\ req[t].op \in Mutating)
                => /\ (Ends(t) /\ IsError(resp'[t])) => (items' = items /\ pc[t] # "write_in")
                   /\ (Ends(t) /\ ~IsError(resp'[t]))
                         => (IsSuccess(resp'[t]) /\ pc[t] = "write_in" /\ Applied(items', req[t]))
                   /\ pc[t] = "write_in" => Ends(t)
       /\ items' # items
            => \E t \in Threads :
                 Ends(t) /\ req[t].op \in Mutating /\ IsSuccess(resp'[t])]_vars

\* One request ended in an error and another in success, on the same id.
C10_Witness ==
    \E t, u \in Threads :
        /\ pc[t] = "done" /\ req[t].op \in Mutating /\ IsError(resp[t])
        /\ pc[u] = "done" /\ req[u].op \in Mutating /\ IsSuccess(resp[u])
        /\ req[t].id = req[u].id
        /\ items # <<>>
\* ---------------------------------------------------------------- C11
\* C11: every record in the store has a name that is non-empty after
\* trimming whitespace, a price >= 0 and a quantity >= 0.
C11_StoredValid ==
    \A n \in DOMAIN items :
        /\ strip(items[n].val.name) # <<>>
        /\ items[n].val.price >= 0
        /\ items[n].val.quantity >= 0

\* A record whose name has surrounding whitespace is stored, after a request
\* with a whitespace-only name was turned away.
C11_Witness ==
    /\ \E n \in DOMAIN items : strip(items[n].val.name) # items[n].val.name
    /\ \E t \in Threads :
         pc[t] = "done" /\ resp[t] = HTTPException(400, "name must be non-empty")

\* ---------------------------------------------------------------- C12
Reads == {"list", "get", "balance"}

\* C12: no step of a list, get or balance request changes the store: the
\* same ids, the same records, in the same order.
C12_PureReads ==
    [][\A t \in Threads :
        (Steps(t) /\ req[t].op \in Reads) => items' = items]_vars

\* A get was answered 404 and a list was answered with records, the store
\* holding records still.
C12_Witness ==
    \E t, u \in Threads :
        /\ pc[t] = "done" /\ req[t].op = "get" /\ resp[t].status = 404
        /\ pc[u] = "done" /\ req[u].op = "list" /\ resp[u].body # <<>>
        /\ resp[u].body = DictValues(items)

\* ---------------------------------------------------------------- C13
\* The ids of the records list_all returns, in its order.
Listed(d) == [n \in DOMAIN db_list_all(d) |-> db_list_all(d)[n].id]

Pos(seq, x) == CHOOSE n \in DOMAIN seq : seq[n] = x

\* The listing orders its ids as their first creations were ordered.
InFirstCreatedOrder(d, fc) ==
    \A m, n \in DOMAIN Listed(d) :
        m < n => Pos(fc, Listed(d)[m]) < Pos(fc, Listed(d)[n])

\* A store step of an update on a present id leaves every id where it was.
UpdateKeepsPlace ==
    \A t \in Threads :
        (Writes(t, "update") /\ Present(items, req[t].id)) => Listed(items') = Listed(items)

\* Only the store step of a create, update or delete changes the listing.
ListStable ==
    (\A t \in Threads : ~(pc[t] = "write_in" /\ Steps(t)))
        => db_list_all(items') = db_list_all(items)

\* C13 as claimed: list_all orders the stored records by the first creation
\* of their ids, an update of a present id keeps every position, and the
\* listing changes only when the store is written.
C13_FirstCreationOrder ==
    [][InFirstCreatedOrder(items', firstCreated') /\ UpdateKeepsPlace /\ ListStable]_vars

\* The listing without the record of id i.
Without(l, i) == SelectSeq(l, LAMBDA p : p.id # i)

\* C13 as amended: list_all orders the stored records by the insertion of
\* their current entries.  A step that makes an id present appends its
\* record to the listing, a step that removes an id keeps the others in
\* order, any other step (an update of a present id among them) keeps every
\* id's position, and the listing changes only when the store is written.
C13_InsertionOrder ==
    [][/\ \A i \in Ids :
            /\ (~Present(items, i) /\ Present(items', i))
                  => db_list_all(items') = Append(db_list_all(items), DictGet(items', i)[1])
            /\ (Present(items, i) /\ ~Present(items', i))
                  => db_list_all(items') = Without(db_list_all(items), i)
       /\ Keys(items') = Keys(items) => Listed(items') = Listed(items)
       /\ UpdateKeepsPlace
       /\ ListStable]_vars

\* Both ids are listed, in the opposite order of their first creations: one
\* was deleted and created again.
C13_Witness ==
    /\ Len(items) = 2
    /\ ~InFirstCreatedOrder(items, firstCreated)

\* ---------------------------------------------------------------- C14
\* Every thread that can take a step of its handler eventually takes one.
Fairness == \A t \in Threads : WF_vars(Step(t))

\* A batch of concurrent requests, one per thread, under fair scheduling.
LiveOnce == SpecOnce /\ Fairness

\* C14: every request that has started is eventually answered, and whenever
\* no thread is inside a store method the lock is free.
C14_NoBlocking ==
    /\ \A t \in Threads : (pc[t] \notin {"idle", "done"}) ~> (pc[t] = "done")
    /\ []((\A t \in Threads : pc[t] \notin InPcs) => lock.owner = NoThread)

\* All threads have been answered after store requests, and the lock is free.
C14_Witness ==
    /\ AllDone
    /\ \A t \in Threads : req[t].op \in Mutating /\ resp[t].status # 0
    /\ \E t, u \in Threads : t # u /\ req[t].id = req[u].id
    /\ lock.owner = NoThread

\* ---------------------------------------------------------------- C15
\* C15: a create or update request with a whitespace-only name takes one
\* step only, its name check, which answers 400 "name must be non-empty"
\* without looking at the store: the store and its lock are as they were,
\* whether the id is present or absent.
C15_ValidationOrder ==
    [][\A t \in Threads :
        (Steps(t) /\ req[t].op \in {"create", "update"}
                  /\ strip(req[t].body.name) = <<>>)
            => /\ pc[t] = "validate"
               /\ Ends(t)
               /\ resp'[t] = HTTPException(400, "name must be non-empty")
               /\ items' = items
               /\ lock' = lock]_vars

\* A blank-name create of a present id and a blank-name update of an absent
\* id were both answered 400 "name must be non-empty".
C15_Witness ==
    \E t, u \in Threads :
        /\ pc[t] = "done" /\ req[t].op = "create"
        /\ strip(req[t].body.name) = <<>> /\ Present(items, req[t].id)
        /\ resp[t] = HTTPException(400, "name must be non-empty")
        /\ pc[u] = "done" /\ req[u].op = "update"
        /\ strip(req[u].body.name) = <<>> /\ ~Present(items, req[u].id)
        /\ resp[u] = HTTPException(400, "name must be non-empty")

\* ---------------------------------------------------------------- C16
SameIdCreates ==
    /\ \A t \in Threads : ValidCreate(req[t])
    /\ \A t, u \in Threads : req[t].id = req[u].id

\* C16: when the batch is valid creates of one id and all have been
\* answered, exactly one was answered 201, every other 400 "id must be
\* unique", and the record stored is the payload of the one answered 201.
C16_SameIdCreate ==
    (AllDone /\ SameIdCreates)
        => \E t \in Threads :
             /\ resp[t] = Resp(201, "", << Wanted(req[t]) >>, 0)
             /\ \A u \in Threads \ {t} : resp[u] = HTTPException(400, "id must be unique")
             /\ DictGet(items, req[t].id) = << Wanted(req[t]) >>

\* ---------------------------------------------------------------- C17
\* C17: a delete request is answered 204 only in a step that itself removes
\* the record of its id (so of several deletes of one present id, with no
\* create between them, one is answered 204 and the others 404).
C17_SameIdDelete ==
    [][\A t \in Threads :
        (Steps(t) /\ req[t].op = "delete" /\ resp'[t].status = 204)
            => (Present(items, req[t].id) /\ ~Present(items', req[t].id))]_vars

\* ---------------------------------------------------------------- C18
\* C18: every record is stored under the key equal to its id field, and no
\* two entries of the store have the same key.
C18_KeyIsId ==
    /\ \A n \in DOMAIN items : items[n].val.id = items[n].key
    /\ \A m, n \in DOMAIN items : items[m].key = items[n].key => m = n

\* Two records are stored and one of them was put there by an update.
C18_Witness ==
    /\ Len(items) = 2
    /\ \E t \in Threads :
         /\ pc[t] = "done" /\ req[t].op = "update" /\ resp[t].status = 200
         /\ DictGet(items, req[t].id) = << Wanted(req[t]) >>

\* ---------------------------------------------------------------- C19
\* C19: no step of a create, update or delete request for id i adds, removes
\* or changes the record of another id.
C19_Frame ==
    [][\A t \in Threads :
        (Steps(t) /\ req[t].op \in Mutating)
            => \A j \in Ids \ {req[t].id} : DictGet(items', j) = DictGet(items, j)]_vars

\* A delete was answered 204 while the record of another id stays stored.
C19_Witness ==
    \E t \in Threads :
        /\ pc[t] = "done" /\ req[t].op = "delete" /\ resp[t].status = 204
        /\ \E j \in Ids \ {req[t].id} : Present(items, j)
====
